---- MODULE Spec2Model ----
(***************************************************************************)
(* Model of the OAuth2 refresh-token flow of src/src/refresh.rs:           *)
(* RefreshFlow { client, result } with its constructor and its single      *)
(* operation refresh_token.  The HTTP transport, the JSON text of the      *)
(* response and the wall clock are the environment: each invocation draws  *)
(* the transport's answer from a bounded set, and the clock advances       *)
(* between invocations.                                                    *)
(***************************************************************************)
EXTENDS Integers, Sequences, FiniteSets, TLC

\* ---------------------------------------------------------------- bounds
MaxCalls == 2        \* invocations of refresh_token explored per flow
MaxClock == 1        \* the clock runs over 0..MaxClock (seconds)
MaxScopes == 2       \* longest scope list passed to refresh_token

\* ------------------------------------------------------- JSON field values
\* A member of a JSON object as the decoder sees it: not there, null,
\* a string, an integer, or a value of any other type (true, [], {}).
Absent == [k |-> "absent"]
Null   == [k |-> "null"]
Other  == [k |-> "other"]
Str(s) == [k |-> "str", v |-> s]
Num(n) == [k |-> "num", v |-> n]

\* Option<T>: None is the empty sequence, Some(x) the one-element sequence.
None    == <<>>
Some(x) == <<x>>

\* --------------------------------------------------------- input domains
FlowTypes     == {"Device", "InstalledInteractive"}
\* A string argument is the sequence of its pieces: a piece is a run of
\* characters the form encoding leaves alone (ASCII letters, digits and
\* * - . _), or one single character of any other kind.
ClientIds     == {<<"bogus">>}
ClientSecrets == {<<"secret">>}
RefreshTokens == {<<"bogus_refresh_token">>, <<"other_refresh_token">>}
ScopeLists    == {<< <<"scope.url">> >>}
HttpErrors    == {"HttpIoError", "HttpStatusError"}

ErrorVals     == {Absent, Str("invalid_grant")}
DescVals      == {Absent, Null, Other, Str("Token revoked")}
AccessVals    == {Str("1/fFAGRNJru1FTz70BzhT3Zg"), Str("ya29.other")}
TypeVals      == {Absent, Str("Bearer")}
ExpiresVals   == {Absent, Num(-1), Num(0), Num(2)}

\* The text of a response body: something that is not a JSON object
\* (HELLO), or a JSON object, given by the members the decoders look at and
\* by whether it has further members.
Garbage == [kind |-> "garbage"]
Objects == [kind : {"object"}, error : ErrorVals, error_description : DescVals,
            access_token : AccessVals, token_type : TypeVals,
            expires_in : ExpiresVals, extra : BOOLEAN]
Bodies  == {Garbage} \cup Objects

\* What the transport does with one POST.
SendErr(e)  == [kind |-> "send_err", err |-> e]
ReadFail    == [kind |-> "read_fail"]
Body(b)     == [kind |-> "body", body |-> b]
NoResponse  == [kind |-> "none"]
Responses   == {SendErr(e) : e \in HttpErrors} \cup {ReadFail}
               \cup {Body(b) : b \in Bodies}

Arguments == [flow_type : {"Device"}, client_id : ClientIds,
              client_secret : ClientSecrets, refresh_token : RefreshTokens,
              scopes : ScopeLists]
\* Arguments with the characters the form encoding rewrites and with every
\* scope list of up to MaxScopes scopes.
ReqClientIds     == {<<"a", "&", "b">>}
ReqClientSecrets == {<<"x", "=", "y">>}
ReqRefreshTokens == {<<"1", "/", "f">>, <<"p", "+", " ", "%">>}
ScopeNames       == {<<"a">>, <<"u", "/", "v">>}
ReqScopeLists    == UNION {[1..n -> ScopeNames] : n \in 0..MaxScopes}

RequestArguments == [flow_type : FlowTypes, client_id : ReqClientIds,
                     client_secret : ReqClientSecrets,
                     refresh_token : ReqRefreshTokens, scopes : ReqScopeLists]

NoArguments == [flow_type |-> "", client_id |-> <<>>, client_secret |-> <<>>,
                refresh_token |-> <<>>, scopes |-> <<>>]

\* ------------------------------------------------------------ RefreshResult
Error(err) == [tag |-> "Error", err |-> err]
RefreshError(e, d) == [tag |-> "RefreshError", error |-> e, error_description |-> d]
Success(token) == [tag |-> "Success", token |-> token]
NoValue == [tag |-> "none"]

\* `if let RefreshResult::Success(_) = self.result`
IsSuccess_never(r) == FALSE
IsSuccess_or_io_error(r) == r.tag = "Success" \/ r = Error("HttpIoError")
IsSuccess_or_refused(r) == r.tag \in {"Success", "RefreshError"}
IsSuccess(r) == r.tag = "Success"

\* --------------------------------------------------------------- decoding
\* Decoding a member as String / i64 / Option<String>: <<>> is a decode
\* failure, <<x>> the decoded value.  A missing member is offered to the
\* field's decoder as null, so only an Option field accepts it.
read_str(v) == IF v.k = "str" THEN <<v.v>> ELSE <<>>
read_i64(v) == IF v.k = "num" THEN <<v.v>> ELSE <<>>
read_option_str(v) ==
    IF v.k \in {"absent", "null"} THEN <<None>>
    ELSE IF v.k = "str" THEN <<Some(v.v)>>
    ELSE <<>>

\* json::decode::<JsonError>: error: String, error_description: Option<String>
DecodeJsonError(b) ==
    IF b.kind # "object" THEN <<>>
    ELSE LET e == read_str(b.error)
             d == read_option_str(b.error_description)
         IN IF e = <<>> \/ d = <<>> THEN <<>>
            ELSE <<[error |-> e[1], error_description |-> d[1]]>>

\* json::decode::<JsonToken>: access_token: String, token_type: String,
\* expires_in: i64; members the struct does not name are ignored.
DecodeJsonToken_strict(b) ==
    IF b.kind # "object" \/ b.extra THEN <<>>
    ELSE LET a == read_str(b.access_token)
             t == read_str(b.token_type)
             x == read_i64(b.expires_in)
         IN IF a = <<>> \/ t = <<>> \/ x = <<>> THEN <<>>
            ELSE <<[access_token |-> a[1], token_type |-> t[1], expires_in |-> x[1]]>>
DecodeJsonToken(b) ==
    IF b.kind # "object" THEN <<>>
    ELSE LET a == read_str(b.access_token)
             t == read_str(b.token_type)
             x == read_i64(b.expires_in)
         IN IF a = <<>> \/ t = <<>> \/ x = <<>> THEN <<>>
            ELSE <<[access_token |-> a[1], token_type |-> t[1], expires_in |-> x[1]]>>

\* ------------------------------------------------------------------ Token
\* The Token built from the decoded JsonToken t, the refresh_token
\* argument and the clock value utc_now.
MakeToken_no_carry(t, refresh_token, utc_now) ==
    [access_token |-> t.access_token, token_type |-> t.token_type,
     refresh_token |-> <<>>, expires_in |-> None,
     expires_in_timestamp |-> Some(utc_now + t.expires_in)]
MakeToken_backdated(t, refresh_token, utc_now) ==
    [access_token |-> t.access_token, token_type |-> t.token_type,
     refresh_token |-> refresh_token, expires_in |-> None,
     expires_in_timestamp |-> Some(utc_now - t.expires_in)]
MakeToken_relative(t, refresh_token, utc_now) ==
    [access_token |-> t.access_token, token_type |-> t.token_type,
     refresh_token |-> refresh_token, expires_in |-> None,
     expires_in_timestamp |-> Some(t.expires_in)]
MakeToken(t, refresh_token, utc_now) ==
    [access_token |-> t.access_token, token_type |-> t.token_type,
     refresh_token |-> refresh_token, expires_in |-> None,
     expires_in_timestamp |-> Some(utc_now + t.expires_in)]

\* Token::expired at clock value t.
expired(token, t) == t >= token.expires_in_timestamp[1]

\* ------------------------------------------------------- response handling
\* What one invocation that got the body json_str does: the value it
\* stores in self.result and whether it returns (ok) or panics.
Returned(r) == [ok |-> TRUE, result |-> r]
Panic       == [ok |-> FALSE]

Interpret_token_first(json_str, refresh_token, utc_now) ==
    LET e == DecodeJsonError(json_str)
        t == DecodeJsonToken(json_str)
    IN IF t # <<>> THEN Returned(Success(MakeToken(t[1], refresh_token, utc_now)))
       ELSE IF e # <<>> THEN Returned(RefreshError(e[1].error, e[1].error_description))
       ELSE Panic
Interpret_default_token(json_str, refresh_token, utc_now) ==
    LET e == DecodeJsonError(json_str)
        t == DecodeJsonToken(json_str)
    IN IF e # <<>> THEN Returned(RefreshError(e[1].error, e[1].error_description))
       ELSE IF t = <<>>
            THEN Returned(Success(MakeToken(
                     [access_token |-> "", token_type |-> "", expires_in |-> 0],
                     refresh_token, utc_now)))
       ELSE Returned(Success(MakeToken(t[1], refresh_token, utc_now)))
Interpret(json_str, refresh_token, utc_now) ==
    LET e == DecodeJsonError(json_str)
        t == DecodeJsonToken(json_str)
    IN IF e # <<>> THEN Returned(RefreshError(e[1].error, e[1].error_description))
       ELSE IF t = <<>> THEN Panic
       ELSE Returned(Success(MakeToken(t[1], refresh_token, utc_now)))

\* ---------------------------------------------------------------- request
\* collect::<String>() of an iterator of strings: their concatenation.
RECURSIVE Collect(_)
Collect(ss) == IF ss = <<>> THEN <<>> ELSE Head(ss) \o Collect(Tail(ss))

\* itertools intersperse: sep between every two consecutive elements.
RECURSIVE Intersperse(_, _)
Intersperse(xs, sep) ==
    IF Len(xs) <= 1 THEN xs
    ELSE <<Head(xs), sep>> \o Intersperse(Tail(xs), sep)

\* scopes.into_iter().map(|s| s.as_ref()).intersperse(" ").collect::<String>()
JoinScopes_trailing(scopes) == Collect([i \in 1..Len(scopes) |-> scopes[i] \o <<" ">>])
JoinScopes(scopes) == Collect(Intersperse(scopes, <<" ">>))

\* The characters outside the set the form encoding leaves alone, with
\* the two hexadecimal digits of their percent-encoding.
PercentCode == [c \in {"&", "=", "/", "+", "%"} |->
                  CASE c = "&" -> "26" [] c = "=" -> "3D" [] c = "/" -> "2F"
                    [] c = "+" -> "2B" [] c = "%" -> "25"]

\* form_urlencoded byte_serialize: a space becomes +, the characters of
\* the encode set become %XX, everything else stays.
byte_serialize_raw(s) == s
byte_serialize(s) ==
    Collect([i \in 1..Len(s) |->
               IF s[i] = " " THEN <<"+">>
               ELSE IF s[i] \in DOMAIN PercentCode THEN <<"%", PercentCode[s[i]]>>
               ELSE <<s[i]>>])

\* form_urlencoded::serialize: name=value for every pair, joined by &.
serialize(pairs) ==
    Collect(Intersperse(
        [i \in 1..Len(pairs) |->
           byte_serialize(pairs[i][1]) \o <<"=">> \o byte_serialize(pairs[i][2])],
        <<"&">>))

\* The pairs handed to form_urlencoded::serialize.
FormPairs_sorted(a) ==
    << <<(<<"client_id">>), a.client_id>>,
       <<(<<"client_secret">>), a.client_secret>>,
       <<(<<"grant_type">>), <<"refresh_token">> >>,
       <<(<<"refresh_token">>), a.refresh_token>>,
       <<(<<"scope">>), JoinScopes(a.scopes)>> >>
FormPairs(a) ==
    << <<(<<"client_id">>), a.client_id>>,
       <<(<<"client_secret">>), a.client_secret>>,
       <<(<<"refresh_token">>), a.refresh_token>>,
       <<(<<"grant_type">>), <<"refresh_token">> >>,
       <<(<<"scope">>), JoinScopes(a.scopes)>> >>

\* The request of one invocation: post(flow_type.as_ref()), the
\* Content-Type header and the body.
NoRequest == [url |-> "", content_type |-> "", body |-> <<>>]
BuildRequest(a) ==
    [url |-> a.flow_type,
     content_type |-> "application/x-www-form-urlencoded",
     body |-> serialize(FormPairs(a))]

\* Number of send() calls one invocation that reaches the POST makes.
SendsPerCall_retry == 1 + 1
SendsPerCall == 1

\* `Err(err) => { self.result = RefreshResult::Error(err); ... }`
OnSendError_placeholder(err) == Error("HttpStatusError")
OnSendError(err) == Error(err)

\* The whole of refresh_token on a flow whose stored result is res: the
\* outcome and the number of POSTs handed to the transport.
Run_always_posts(res, a, resp, utc_now) ==
    IF IsSuccess(res) THEN [out |-> Returned(res), sends |-> SendsPerCall]
    ELSE IF resp.kind = "send_err"
         THEN [out |-> Returned(OnSendError(resp.err)), sends |-> SendsPerCall]
    ELSE IF resp.kind = "read_fail"
         THEN [out |-> Panic, sends |-> SendsPerCall]
    ELSE [out |-> Interpret(resp.body, a.refresh_token, utc_now),
          sends |-> SendsPerCall]
Run_keeps_old(res, a, resp, utc_now) ==
    IF IsSuccess(res) THEN [out |-> Returned(res), sends |-> 0]
    ELSE IF resp.kind = "send_err"
         THEN [out |-> Returned(res), sends |-> SendsPerCall]
    ELSE IF resp.kind = "read_fail"
         THEN [out |-> Panic, sends |-> SendsPerCall]
    ELSE [out |-> Interpret(resp.body, a.refresh_token, utc_now),
          sends |-> SendsPerCall]
Run(res, a, resp, utc_now) ==
    IF IsSuccess(res) THEN [out |-> Returned(res), sends |-> 0]
    ELSE IF resp.kind = "send_err"
         THEN [out |-> Returned(OnSendError(resp.err)), sends |-> SendsPerCall]
    ELSE IF resp.kind = "read_fail"
         THEN [out |-> Panic, sends |-> SendsPerCall]
    ELSE [out |-> Interpret(resp.body, a.refresh_token, utc_now),
          sends |-> SendsPerCall]

\* ------------------------------------------------------------------ state
VARIABLES
    result,     \* RefreshFlow.result, the stored last outcome
    now,        \* the wall clock, seconds
    posts,      \* POSTs the transport has been asked to send
    calls,      \* invocations of refresh_token begun
    shorts,     \* invocations that found a stored Success
    ret,        \* what the latest invocation returned (NoValue: nothing)
    aborted,    \* the latest invocation panicked instead of returning
    last,       \* the latest invocation: arguments, transport answer, clock
    origin,     \* the invocation that stored the Success, as for last
    found,      \* the tag of the result the latest invocation found stored
    sent        \* the request the latest invocation handed to the transport

vars == <<result, now, posts, calls, shorts, ret, aborted, last, origin, found,
          sent>>

NoCall == [args |-> NoArguments, resp |-> NoResponse, now |-> 0]

\* RefreshFlow::new
Init ==
    /\ result = Error("HttpStatusError")
    /\ now = 0
    /\ posts = 0
    /\ calls = 0
    /\ shorts = 0
    /\ ret = NoValue
    /\ aborted = FALSE
    /\ last = NoCall
    /\ origin = NoCall
    /\ found = "none"
    /\ sent = NoRequest

\* RefreshFlow::refresh_token
RefreshToken(a, resp) ==
    /\ ~aborted
    /\ calls < MaxCalls
    /\ LET r == Run(result, a, resp, now)
       IN /\ calls' = calls + 1
          /\ found' = result.tag
          /\ sent' = IF r.sends > 0 THEN BuildRequest(a) ELSE NoRequest
          /\ posts' = posts + r.sends
          /\ shorts' = IF IsSuccess(result) THEN shorts + 1 ELSE shorts
          /\ last' = [args |-> a,
                      resp |-> IF IsSuccess(result) THEN NoResponse ELSE resp,
                      now |-> now]
          /\ origin' = IF ~IsSuccess(result) /\ r.out.ok /\ IsSuccess(r.out.result)
                        THEN [args |-> a, resp |-> resp, now |-> now]
                        ELSE origin
          /\ IF r.out.ok
             THEN /\ result' = r.out.result
                  /\ ret' = r.out.result
                  /\ aborted' = FALSE
             ELSE /\ result' = result
                  /\ ret' = NoValue
                  /\ aborted' = TRUE
    /\ UNCHANGED now

\* The clock advances.
Tick ==
    /\ now < MaxClock
    /\ now' = now + 1
    /\ UNCHANGED <<result, posts, calls, shorts, ret, aborted, last, origin, found,
                   sent>>

\* The transport answers only when it is asked: an invocation that finds a
\* stored Success never reaches it.
Answers(res) == IF IsSuccess(res) THEN {NoResponse} ELSE Responses

Next ==
    \/ \E a \in Arguments, resp \in Answers(result) : RefreshToken(a, resp)
    \/ Tick

Spec == Init /\ [][Next]_vars

\* ------------------------------------------------------- shapes of a body
\* The latest invocation posted and read the body last.resp.body.
GotBody == last.resp.kind = "body"

\* The body decodes as the provider-error shape: a JSON object whose error
\* is a string and whose error_description is missing, null or a string.
ErrorShape(b) ==
    /\ b.kind = "object"
    /\ b.error.k = "str"
    /\ b.error_description.k \in {"absent", "null", "str"}

\* The body decodes as the token shape.
TokenShape(b) ==
    /\ b.kind = "object"
    /\ b.access_token.k = "str"
    /\ b.token_type.k = "str"
    /\ b.expires_in.k = "num"

\* ----------------------------------------------------------------- claims

\* C1: once the stored result is Success(token), no invocation of
\* refresh_token (and no other step) changes it.
C1_SuccessIsSticky ==
    [][result.tag = "Success" => result' = result]_vars

\* C1 witness: a Success survived an invocation with other arguments.
C1_Witness ==
    /\ result.tag = "Success"
    /\ shorts > 0
    /\ last.args # origin.args

\* C2: an invocation made while the stored result is Success returns that
\* Success and leaves the transport's call count unchanged.
C2_ShortCircuitNoPost ==
    [][(result.tag = "Success" /\ calls' = calls + 1)
         => (posts' = posts /\ ret' = result /\ ~aborted')]_vars

\* C2 witness: a short-circuited invocation with another refresh token and
\* another endpoint returned the first Success.
C2_Witness ==
    /\ shorts > 0
    /\ ret = result
    /\ ret.tag = "Success"
    /\ last.args.refresh_token # origin.args.refresh_token
    /\ last.args.flow_type # origin.args.flow_type

\* C3: an invocation made while the stored result is not Success issues
\* exactly one POST whatever the transport answers, so the POST count is
\* the number of invocations less the short-circuited ones.
C3_OnePostPerCall ==
    /\ [](posts = calls - shorts)
    /\ [][(result.tag # "Success" /\ calls' = calls + 1)
            => posts' = posts + 1]_vars

\* C3 witness: two invocations, two POSTs, the second one answered with a
\* body that decodes as nothing.
C3_Witness ==
    /\ calls = 2
    /\ posts = 2
    /\ GotBody
    /\ ~ErrorShape(last.resp.body)
    /\ ~TokenShape(last.resp.body)

\* C4 (as claimed): a body that decodes neither as the error shape nor as
\* the token shape makes the invocation store and return an Error.
C4_DecodeFailureReturned ==
    (GotBody /\ ~ErrorShape(last.resp.body) /\ ~TokenShape(last.resp.body))
        => (~aborted /\ result.tag = "Error" /\ ret = result)

\* C5: a failed send() stores and returns Error with the transport's error,
\* and the invocation after it posts again.
C5_SendErrorRetryable ==
    [][/\ (last'.resp.kind = "send_err"
             => (~aborted' /\ result' = Error(last'.resp.err) /\ ret' = result'))
       /\ ((last.resp.kind = "send_err" /\ calls' = calls + 1)
             => posts' = posts + 1)]_vars

\* C5 witness: a send error other than the constructor's placeholder was
\* followed by an invocation that posted.
C5_Witness ==
    /\ calls = 2
    /\ posts = 2
    /\ last.resp.kind = "send_err"
    /\ result = Error("HttpIoError")

\* C6 (as claimed): a failure to read the response body makes the
\* invocation store and return an Error.
C6_ReadFailureReturned ==
    last.resp.kind = "read_fail"
        => (~aborted /\ result.tag = "Error" /\ ret = result)

\* C7 (as claimed): a body of the error shape gives RefreshError(error,
\* error_description), never Success, and the description is None exactly
\* when the body has no error_description member.
C7_ErrorShapeWins_Original ==
    (GotBody /\ ErrorShape(last.resp.body))
        => /\ result.tag = "RefreshError"
           /\ ret = result
           /\ result.error = last.resp.body.error.v
           /\ (result.error_description = None
                 <=> last.resp.body.error_description = Absent)

\* C7 (amended): a body of the error shape gives RefreshError(error,
\* error_description), never Success, also when it has the token members;
\* the description is None exactly when the body's error_description is
\* missing or null, and Some(the string) otherwise.
C7_ErrorShapeWins ==
    (GotBody /\ ErrorShape(last.resp.body))
        => /\ result.tag = "RefreshError"
           /\ ret = result
           /\ result.error = last.resp.body.error.v
           /\ (result.error_description = None
                 <=> last.resp.body.error_description.k \in {"absent", "null"})
           /\ (last.resp.body.error_description.k = "str"
                 => result.error_description
                      = Some(last.resp.body.error_description.v))

\* C7 witness: an error document that also is a complete token document
\* was answered with RefreshError.
C7_Witness ==
    /\ GotBody
    /\ ErrorShape(last.resp.body)
    /\ TokenShape(last.resp.body)
    /\ result.tag = "RefreshError"

\* C8: a body that is not of the error shape and is of the token shape
\* gives Success with the body's access_token and token_type, whatever
\* else the body holds, and for expires_in > 0 the token is not expired at
\* the clock value of the invocation.
C8_TokenShapeSucceeds ==
    (GotBody /\ ~ErrorShape(last.resp.body) /\ TokenShape(last.resp.body))
        => /\ result.tag = "Success"
           /\ ret = result
           /\ ~aborted
           /\ result.token.access_token = last.resp.body.access_token.v
           /\ result.token.token_type = last.resp.body.token_type.v
           /\ (last.resp.body.expires_in.v > 0
                 => ~expired(result.token, last.now))

\* C8 witness: a Success from a body with further members and a positive
\* expires_in.
C8_Witness ==
    /\ GotBody
    /\ TokenShape(last.resp.body)
    /\ last.resp.body.extra
    /\ last.resp.body.expires_in.v > 0
    /\ result.tag = "Success"

\* C9: the refresh_token of a stored Success is the refresh_token argument
\* of the invocation that posted and stored it.
C9_RefreshTokenCarried ==
    result.tag = "Success"
        => /\ origin.resp.kind = "body"
           /\ result.token.refresh_token = origin.args.refresh_token

\* C9 witness: a later short-circuited invocation passed another refresh
\* token and the stored one is still the first.
C9_Witness ==
    /\ result.tag = "Success"
    /\ shorts > 0
    /\ last.args.refresh_token # origin.args.refresh_token
    /\ result.token.refresh_token = origin.args.refresh_token

\* C10: the expires_in_timestamp of a stored Success is the clock value of
\* the invocation that stored it plus the body's expires_in.
C10_ExpiryIsClockPlusExpiresIn ==
    result.tag = "Success"
        => /\ origin.resp.kind = "body"
           /\ result.token.expires_in_timestamp
                = Some(origin.now + origin.resp.body.expires_in.v)

\* C10 witness: a Success with a short-circuited invocation at a later
\* clock value than the one it was stored at.
C10_Witness ==
    /\ result.tag = "Success"
    /\ shorts > 0
    /\ last.now > origin.now
    /\ origin.resp.body.expires_in.v # 0

\* C11 (as claimed): the expires_in_timestamp of a stored Success is
\* strictly greater than the clock value of the invocation that stored it,
\* for every token body, those with expires_in <= 0 included.
C11_ExpiryAfterClock_Original ==
    result.tag = "Success"
        => result.token.expires_in_timestamp[1] > origin.now

\* C11 (amended): the expires_in_timestamp of a stored Success is strictly
\* greater than the clock value of the invocation that stored it whenever
\* the body's expires_in is greater than 0.
C11_ExpiryAfterClock ==
    (result.tag = "Success" /\ origin.resp.body.expires_in.v > 0)
        => result.token.expires_in_timestamp[1] > origin.now

\* C11 witness: a Success stored from a positive expires_in at a clock
\* value other than 0.
C11_Witness ==
    /\ result.tag = "Success"
    /\ origin.resp.body.expires_in.v > 0
    /\ origin.now > 0
    /\ result.token.expires_in_timestamp[1] > origin.now

\* C12: a stored RefreshError is not sticky: the invocation that finds it
\* posts again, and when that invocation returns, the stored result is the
\* outcome of the new response (Error, RefreshError or Success).
C12_RefreshErrorNotSticky ==
    [][(result.tag = "RefreshError" /\ calls' = calls + 1)
         => /\ posts' = posts + 1
            /\ last'.resp.kind \in {"send_err", "read_fail", "body"}
            /\ ~aborted' =>
                 /\ ret' = result'
                 /\ last'.resp.kind = "send_err"
                      => result' = Error(last'.resp.err)
                 /\ (last'.resp.kind = "body" /\ ErrorShape(last'.resp.body))
                      => /\ result'.tag = "RefreshError"
                         /\ result'.error = last'.resp.body.error.v
                 /\ (last'.resp.kind = "body" /\ ~ErrorShape(last'.resp.body))
                      => /\ result'.tag = "Success"
                         /\ result'.token.access_token
                              = last'.resp.body.access_token.v]_vars

\* C12 witness: a RefreshError was followed by a Success.
C12_Witness ==
    /\ found = "RefreshError"
    /\ result.tag = "Success"
    /\ posts = 2

\* C12: a RefreshError can also be followed by an Error and by another
\* RefreshError.
C12_WitnessError ==
    /\ found = "RefreshError"
    /\ result.tag = "Error"
    /\ ~aborted

C12_WitnessRefreshError ==
    /\ found = "RefreshError"
    /\ result.tag = "RefreshError"
    /\ last.resp.kind = "body"
    /\ ~aborted

\* C13: the flow has no state besides the stored result.  An invocation
\* that finds an Error stored, after any number of invocations that
\* returned Error, sends the request and has the outcome that the same
\* arguments, transport answer and clock give on a new flow.
C13_NoHiddenState ==
    [][(result.tag = "Error" /\ calls' = calls + 1)
         => /\ posts' = posts + 1
            /\ last'.resp.kind \in {"send_err", "read_fail", "body"}
            /\ LET fresh == Run(Error("HttpStatusError"), last'.args,
                                last'.resp, last'.now)
               IN /\ sent' = BuildRequest(last'.args)
                  /\ aborted' = ~fresh.out.ok
                  /\ fresh.out.ok => (result' = fresh.out.result /\ ret' = result')
                  /\ fresh.sends = posts' - posts]_vars

\* C13 witness: an invocation that followed one returning Error got a
\* token body and stored Success.
C13_Witness ==
    /\ calls = 2
    /\ found = "Error"
    /\ result.tag = "Success"
    /\ last.resp.kind = "body"
    /\ sent = BuildRequest(last.args)

\* ------------------------------------------------- the requests in detail
\* The flow called with RequestArguments; the transport refuses the
\* connection or delivers the token document.
TokenDocument == [kind |-> "object", error |-> Absent, error_description |-> Absent,
                  access_token |-> Str("1/fFAGRNJru1FTz70BzhT3Zg"),
                  token_type |-> Str("Bearer"), expires_in |-> Num(2),
                  extra |-> FALSE]

RequestAnswers(res) ==
    IF IsSuccess(res) THEN {NoResponse}
    ELSE {SendErr("HttpIoError"), Body(TokenDocument)}

NextRequest ==
    \/ \E a \in RequestArguments, resp \in RequestAnswers(result) :
          RefreshToken(a, resp)
    \/ Tick

RequestSpec == Init /\ [][NextRequest]_vars

\* Reading a form-encoded body back: the pieces between the separators.
RECURSIVE SplitOn(_, _)
SplitOn(s, sep) ==
    IF \A i \in 1..Len(s) : s[i] # sep THEN <<s>>
    ELSE LET i == CHOOSE j \in 1..Len(s) :
                     s[j] = sep /\ \A k \in 1..(j - 1) : s[k] # sep
         IN <<SubSeq(s, 1, i - 1)>> \o SplitOn(SubSeq(s, i + 1, Len(s)), sep)

\* + is a space and %XX the character with that code.
RECURSIVE FormDecode(_)
FormDecode(s) ==
    IF s = <<>> THEN <<>>
    ELSE IF Head(s) = "+" THEN <<" ">> \o FormDecode(Tail(s))
    ELSE IF /\ Head(s) = "%"
            /\ Len(s) >= 2
            /\ \E c \in DOMAIN PercentCode : PercentCode[c] = s[2]
         THEN <<CHOOSE c \in DOMAIN PercentCode : PercentCode[c] = s[2]>>
                \o FormDecode(SubSeq(s, 3, Len(s)))
    ELSE <<Head(s)>> \o FormDecode(Tail(s))

\* The key/value pairs a server reads from the body, in order.
ParseForm(body) ==
    LET fields == SplitOn(body, "&")
    IN [i \in 1..Len(fields) |->
          LET kv == SplitOn(fields[i], "=")
          IN [j \in 1..Len(kv) |-> FormDecode(kv[j])]]

\* Where scope i starts in the joined string, less one.
RECURSIVE ScopeOffset(_, _)
ScopeOffset(scopes, i) ==
    IF i = 1 THEN 0
    ELSE ScopeOffset(scopes, i - 1) + Len(scopes[i - 1]) + 1

\* v is the scopes in the caller's order, one space between neighbours and
\* nothing before the first or after the last.
IsJoined(v, scopes) ==
    LET n == Len(scopes)
    IN /\ n = 0 => v = <<>>
       /\ n = 1 => v = scopes[1]
       /\ n > 0 => Len(v) = ScopeOffset(scopes, n) + Len(scopes[n])
       /\ \A i \in 1..n :
            SubSeq(v, ScopeOffset(scopes, i) + 1,
                   ScopeOffset(scopes, i) + Len(scopes[i])) = scopes[i]
       /\ \A i \in 1..(n - 1) :
            v[ScopeOffset(scopes, i) + Len(scopes[i]) + 1] = " "

\* The latest invocation posted.
Posted == sent # NoRequest

\* C15: the scope value of a request is the caller's scopes in the
\* caller's order with exactly one space between neighbours, not sorted
\* nor deduplicated, without leading or trailing space: empty for no scope,
\* the scope itself for one.
C15_ScopeJoin ==
    Posted =>
        LET pairs == ParseForm(sent.body)
        IN /\ Len(pairs) = 5
           /\ Len(pairs[5]) = 2
           /\ pairs[5][1] = <<"scope">>
           /\ IsJoined(pairs[5][2], last.args.scopes)

\* C15 witness: a request whose scope list is not in sorted order.
C15_Witness ==
    /\ Posted
    /\ last.args.scopes = << <<"u", "/", "v">>, <<"a">> >>
    /\ ParseForm(sent.body)[5][2] = <<"u", "/", "v", " ", "a">>

\* C15: a scope named twice is sent twice, and no scope gives the empty
\* value.
C15_WitnessTwice ==
    /\ Posted
    /\ last.args.scopes = << <<"a">>, <<"a">> >>
    /\ ParseForm(sent.body)[5][2] = <<"a", " ", "a">>

C15_WitnessEmpty ==
    /\ Posted
    /\ last.args.scopes = <<>>
    /\ ParseForm(sent.body)[5] = << <<"scope">>, <<>> >>

\* C16: every POST has the body of exactly the five pairs client_id,
\* client_secret, refresh_token, grant_type, scope in this order, the
\* first three with the invocation's arguments, grant_type with the
\* literal refresh_token, scope with the joined scopes; its Content-Type
\* is application/x-www-form-urlencoded.
C16_RequestBody ==
    Posted =>
        LET pairs == ParseForm(sent.body)
        IN /\ sent.content_type = "application/x-www-form-urlencoded"
           /\ Len(pairs) = 5
           /\ \A i \in 1..5 : Len(pairs[i]) = 2
           /\ pairs[1] = << <<"client_id">>, last.args.client_id >>
           /\ pairs[2] = << <<"client_secret">>, last.args.client_secret >>
           /\ pairs[3] = << <<"refresh_token">>, last.args.refresh_token >>
           /\ pairs[4] = << <<"grant_type">>, <<"refresh_token">> >>
           /\ pairs[5][1] = <<"scope">>
           /\ IsJoined(pairs[5][2], last.args.scopes)

\* C16 witness: a request whose arguments hold &, =, +, % and a space.
C16_Witness ==
    /\ Posted
    /\ last.args.refresh_token = <<"p", "+", " ", "%">>
    /\ Len(last.args.scopes) = 2
    /\ Len(ParseForm(sent.body)) = 5

\* r is the outcome the code gives for the transport answer resp.
IsOutcomeOf(r, resp) ==
    \/ /\ resp.kind = "send_err"
       /\ r = Error(resp.err)
    \/ /\ resp.kind = "body"
       /\ ErrorShape(resp.body)
       /\ r.tag = "RefreshError"
       /\ r.error = resp.body.error.v
    \/ /\ resp.kind = "body"
       /\ ~ErrorShape(resp.body)
       /\ TokenShape(resp.body)
       /\ r.tag = "Success"
       /\ r.token.access_token = resp.body.access_token.v
       /\ r.token.token_type = resp.body.token_type.v

\* C14: an invocation that returns either found a Success stored, or has
\* posted and stored the outcome of its own POST; what it returns is the
\* stored result, never the constructor's placeholder or the outcome of an
\* earlier invocation.
C14_PlaceholderNeverReturned ==
    [][(calls' = calls + 1 /\ ~aborted')
         => /\ ret' = result'
            /\ \/ /\ result.tag = "Success"
                  /\ result' = result
               \/ /\ result.tag # "Success"
                  /\ posts' = posts + 1
                  /\ IsOutcomeOf(result', last'.resp)]_vars

\* C14 witness: the first invocation returned the error of its own POST,
\* which is not the placeholder's.
C14_Witness ==
    /\ calls = 1
    /\ found = "Error"
    /\ last.resp.kind = "send_err"
    /\ ret = Error("HttpIoError")
    /\ ret = result

\* C17: a Success is never made up.  A stored Success comes from an
\* earlier POST whose body was not of the error shape and was of the token
\* shape, with the token's access_token and token_type; and no step takes
\* the stored result to Success on any other transport answer.
C17_SuccessNeverFabricated ==
    /\ [](result.tag = "Success"
            => /\ posts > 0
               /\ origin.resp.kind = "body"
               /\ ~ErrorShape(origin.resp.body)
               /\ TokenShape(origin.resp.body)
               /\ result.token.access_token = origin.resp.body.access_token.v
               /\ result.token.token_type = origin.resp.body.token_type.v)
    /\ [][(result.tag # "Success" /\ result'.tag = "Success")
            => /\ posts' = posts + 1
               /\ last'.resp.kind = "body"
               /\ ~ErrorShape(last'.resp.body)
               /\ TokenShape(last'.resp.body)
               /\ origin' = last']_vars

\* C17 witness: a Success stored by the second invocation, after a
\* RefreshError, and still stored.
C17_Witness ==
    /\ result.tag = "Success"
    /\ found = "RefreshError"
    /\ origin = last
    /\ TokenShape(origin.resp.body)
    /\ now > origin.now

\* --------------------------------------------------- a caller that goes on
\* The flow invoked without end: refresh_token as in RefreshToken, with
\* the counters of the invocations stopping at MaxCalls so that no bound
\* stops the caller.  The transport refuses the connection, fails while the body is
\* read, or delivers HELLO, an error document or the token document.
ErrorDocument == [kind |-> "object", error |-> Str("invalid_grant"),
                  error_description |-> Str("Token revoked"),
                  access_token |-> Str("ya29.other"), token_type |-> Absent,
                  expires_in |-> Absent, extra |-> FALSE]

LiveResponses == {SendErr(e) : e \in HttpErrors}
                 \cup {ReadFail, Body(Garbage), Body(ErrorDocument),
                       Body(TokenDocument)}

LiveAnswers(res) == IF IsSuccess(res) THEN {NoResponse} ELSE LiveResponses

UpTo(n) == IF n > MaxCalls THEN MaxCalls ELSE n

RefreshTokenAgain(a, resp) ==
    /\ ~aborted
    /\ LET r == Run(result, a, resp, now)
       IN /\ calls' = UpTo(calls + 1)
          /\ posts' = UpTo(posts + r.sends)
          /\ shorts' = IF IsSuccess(result) THEN UpTo(shorts + 1) ELSE shorts
          /\ found' = result.tag
          /\ sent' = IF r.sends > 0 THEN BuildRequest(a) ELSE NoRequest
          /\ last' = [args |-> a,
                      resp |-> IF IsSuccess(result) THEN NoResponse ELSE resp,
                      now |-> now]
          /\ origin' = IF ~IsSuccess(result) /\ r.out.ok /\ IsSuccess(r.out.result)
                        THEN [args |-> a, resp |-> resp, now |-> now]
                        ELSE origin
          /\ IF r.out.ok
             THEN /\ result' = r.out.result
                  /\ ret' = r.out.result
                  /\ aborted' = FALSE
             ELSE /\ result' = result
                  /\ ret' = NoValue
                  /\ aborted' = TRUE
    /\ UNCHANGED now

\* The caller invokes refresh_token.
Invoke == \E a \in Arguments, resp \in LiveAnswers(result) : RefreshTokenAgain(a, resp)

\* A POST of the flow is answered with the token document.
TokenAnswered ==
    /\ ~IsSuccess(result)
    /\ \E a \in Arguments : RefreshTokenAgain(a, Body(TokenDocument))

NextLive ==
    \/ Invoke
    \/ Tick

\* The caller keeps invoking, and a transport that is asked again and
\* again answers with the token document at some time.
LiveSpec ==
    /\ Init
    /\ [][NextLive]_vars
    /\ WF_vars(Invoke)
    /\ SF_vars(TokenAnswered)

\* C18 (as claimed): a caller that keeps invoking refresh_token, with a
\* transport that at some time answers a POST with a token document,
\* reaches a stored Success and keeps it for ever.
C18_EventuallySuccess == <>[](result.tag = "Success")

====
